---- MODULE Spec2Model ----
(***************************************************************************)
(* A model of r53 (src/src/r53/r53.py): the paginated fetch of a hosted    *)
(* zone's record sets, their reassembly, the normalisation of a record-set *)
(* document and the diff of two documents into a change batch.             *)
(*                                                                         *)
(* Text is a sequence of one-character strings, so that the prefix test,   *)
(* the slice and the lexicographic comparison of the Python code are       *)
(* computed and not assumed.  A document is taken after whitespace         *)
(* stripping (XML_PARSER / normalize_xml): an element has no blank text    *)
(* inside it; only the tail after a whole record set is kept, since the    *)
(* code strips it itself (tostring(x).rstrip()).                           *)
(***************************************************************************)
EXTENDS Integers, Sequences, FiniteSets

VARIABLES
  pc,               \* position of the running call
  old0, new0,       \* the two documents as handed to generate_changeset
  old, new,         \* the same documents as the call leaves them (mutated in place)
  result,           \* what generate_changeset returned or raised
  rrsets0,          \* the document as first handed to normalize_rrs
  rrsets, first, calls,   \* the document now, as the first call left it, and the number of calls
  more_to_fetch, cfg_chunks, next_name, next_type, next_identifier,  \* fetch_config's locals
  requests,         \* the query parameters of every page request issued, in order
  responses,        \* every page the provider answered with, as sent, in order
  live_config,      \* merge_config's result
  errors,           \* validate_changeset's result
  shape,            \* how the validated batch was built (its counts)
  hosted_zones,     \* what conn.get_all_hosted_zones() lists
  zone, zone_id,    \* lookup_zone's argument and result
  args,             \* main: the parsed command line
  ans,              \* main: the operator's answer to "Push y/N? "
  submissions,      \* main: every conn.change_rrsets call, in order
  stdout            \* main: what was printed, in order

vars == <<pc, old0, new0, old, new, result, rrsets0, rrsets, first, calls,
          more_to_fetch, cfg_chunks, next_name, next_type, next_identifier,
          requests, responses, live_config,
          errors, shape, hosted_zones, zone, zone_id, args, ans, submissions, stdout>>

diffVars == <<old0, new0, old, new, result>>
normVars == <<rrsets, first, calls>>
fetchVars == <<more_to_fetch, cfg_chunks, next_name, next_type, next_identifier,
               requests, responses, live_config>>
validateVars == <<errors, shape>>
zoneVars == <<hosted_zones, zone, zone_id>>
cliVars == <<args, ans, submissions, stdout>>
mainVars == <<validateVars, zoneVars, cliVars>>

---------------------------------------------------------------------------
(* Bounds *)

\* entries of old and new together
MaxEntries == 4
\* entries of the document normalize_rrs is called on
MaxDocEntries == 2
\* successive calls of normalize_rrs on one document
MaxCalls == 2
\* page requests of one fetch
MaxPages == 3

---------------------------------------------------------------------------
(* Text *)

\* code point of a character (Python compares str by code point)
Ord(c) ==
  CASE c = "*" -> 42 [] c = "." -> 46 [] c = "0" -> 48 [] c = "1" -> 49
    [] c = "2" -> 50 [] c = "5" -> 53 [] c = "\\" -> 92 [] c = "a" -> 97
    [] OTHER -> 0

Min(a, b) == IF a <= b THEN a ELSE b

\* a <= b for two texts, as Python's str comparison
StrLeq(a, b) ==
  \/ \E i \in 1..Min(Len(a), Len(b)) :
        /\ \A j \in 1..(i - 1) : a[j] = b[j]
        /\ Ord(a[i]) < Ord(b[i])
  \/ /\ Len(a) <= Len(b)
     /\ \A j \in 1..Len(a) : a[j] = b[j]

\* s.startswith(p)
StartsWith(s, p) == Len(s) >= Len(p) /\ SubSeq(s, 1, Len(p)) = p

\* s[n:]
Slice(s, n) == SubSeq(s, n + 1, Len(s))

IsSpace(c) == c \in {" ", "\n"}

\* s.rstrip()
RECURSIVE RStrip(_)
RStrip(s) ==
  IF s # <<>> /\ IsSpace(s[Len(s)]) THEN RStrip(SubSeq(s, 1, Len(s) - 1)) ELSE s

---------------------------------------------------------------------------
(* Documents *)

R53_XMLNS == "https://route53.amazonaws.com/doc/2013-04-01/"
RRSetsTag == "ResourceRecordSets"
RRSetTag == "ResourceRecordSet"
ResponseTag == "ListResourceRecordSetsResponse"

Wildcard == <<"*", ".">>
Escaped == <<"\\", "0", "5", "2", ".">>

NamePlain == <<"a">>
NameStar == <<"*", ".", "a">>
NameEsc == <<"\\", "0", "5", "2", ".", "a">>
NameStarStar == <<"*", ".", "*", ".", "a">>

V1 == <<"1">>
V10 == <<"1", "0">>
V2 == <<"2">>

\* lxml.etree.tostring(x) of one child of a document: its tag, its children
\* in document order, then its tail
RECURSIVE ValuesText(_)
ValuesText(vs) ==
  IF vs = <<>> THEN <<>>
  ELSE <<"<ResourceRecord>", "<Value>">> \o vs[1]
         \o <<"</Value>", "</ResourceRecord>">> \o ValuesText(Tail(vs))

tostring(x) ==
  <<"<", x.tag, " xmlns=", R53_XMLNS, ">", "<Name>">> \o x.name
    \o <<"</Name>", "<Type>", x.type, "</Type>", "<TTL>", x.ttl, "</TTL>",
         "<ResourceRecords>">>
    \o ValuesText(x.values)
    \o <<"</ResourceRecords>", "</", x.tag, ">">> \o x.tail

\* lxml.etree.tostring(x).rstrip()
Serialized(x) == RStrip(tostring(x))

SerializedSet(doc) == { Serialized(doc.children[i]) : i \in 1..Len(doc.children) }

---------------------------------------------------------------------------
(* normalize_rrs *)

\* p occurs in s
Contains(s, p) == \E i \in 0..(Len(s) - Len(p)) : SubSeq(s, i + 1, i + Len(p)) = p

\* the rewritten Name text
RewriteWildcard_Contains(text) ==
  IF Contains(text, Wildcard) THEN Escaped \o Slice(text, 2) ELSE text

RewriteWildcard_None(text) == text

RewriteWildcard(text) ==
  IF StartsWith(text, Wildcard) THEN Escaped \o Slice(text, 2) ELSE text

\* sorted(rrs, key=lambda x: x[0].text): a stable sort by Value text
RECURSIVE InsertByValue(_, _)
InsertByValue(x, s) ==
  IF s = <<>> THEN <<x>>
  ELSE IF StrLeq(s[Len(s)], x) THEN Append(s, x)
  ELSE Append(InsertByValue(x, SubSeq(s, 1, Len(s) - 1)), s[Len(s)])

SortedRrs_Unsorted(rrs) == rrs

RECURSIVE SortedRrs(_)
SortedRrs(rrs) ==
  IF rrs = <<>> THEN <<>>
  ELSE InsertByValue(rrs[Len(rrs)], SortedRrs(SubSeq(rrs, 1, Len(rrs) - 1)))

\* the loop body for one child of the document
NormalizeRrset(rrset) ==
  IF rrset.tag = RRSetTag
  THEN [rrset EXCEPT !.name = RewriteWildcard(@), !.values = SortedRrs(@)]
  ELSE rrset

normalize_rrs(doc) ==
  [doc EXCEPT !.children = [i \in 1..Len(doc.children) |-> NormalizeRrset(doc.children[i])]]

---------------------------------------------------------------------------
(* generate_changeset *)

None == [kind |-> "None"]
InvalidArgumentException == [kind |-> "InvalidArgumentException"]
Unset == [kind |-> "unset"]

\* comment=None: 'Generated by ... for USER@host at time.'
GeneratedComment == "Generated by r53.py"

Change(action, rrs) == [action |-> action, rrs |-> rrs]

\* the children of doc, in order, whose serialized form is not in others
NotIn(doc, others) == SelectSeq(doc.children, LAMBDA x : Serialized(x) \notin others)
StillIn(doc, others) == SelectSeq(doc.children, LAMBDA x : Serialized(x) \in others)

Actions(s, action) == [i \in 1..Len(s) |-> Change(action, s[i])]

\* the guard of the first statement
TagCheckFails(o, n) == RRSetsTag \notin {o.tag, n.tag}

\* the <Changes> of the returned request, from the two normalized documents.
\* Each loop moves the entries it reports out of the document it iterates;
\* lxml's child iterator holds the next sibling before it yields an element,
\* so every entry is still visited, and oldset and newset were taken before.
Changes_CreateFirst(o, n) ==
  Actions(NotIn(n, SerializedSet(o)), "CREATE") \o Actions(NotIn(o, SerializedSet(n)), "DELETE")

Changes_Swapped(o, n) ==
  Actions(NotIn(o, SerializedSet(o)), "DELETE") \o Actions(NotIn(n, SerializedSet(n)), "CREATE")

Changes(o, n) ==
  Actions(NotIn(o, SerializedSet(n)), "DELETE") \o Actions(NotIn(n, SerializedSet(o)), "CREATE")

\* oldset == newset
SameSets_Lists(o, n) ==
  [i \in 1..Len(o.children) |-> Serialized(o.children[i])]
    = [i \in 1..Len(n.children) |-> Serialized(n.children[i])]

SameSets(o, n) == SerializedSet(o) = SerializedSet(n)

GenerateChangeset ==
  /\ pc = "diff"
  /\ pc' = "diffed"
  /\ UNCHANGED <<old0, new0>>
  /\ LET o == normalize_rrs(old)
         n == normalize_rrs(new)
     IN IF TagCheckFails(old, new)
        THEN \* raise InvalidArgumentException()
             /\ result' = InvalidArgumentException
             /\ UNCHANGED <<old, new>>
        ELSE IF SameSets(o, n)
        THEN \* return None
             /\ result' = None
             /\ old' = o
             /\ new' = n
        ELSE /\ result' = [kind |-> "ChangeResourceRecordSetsRequest",
                           comment |-> GeneratedComment,
                           changes |-> Changes(o, n)]
             \* change.append(rrs) moves the element out of its document
             /\ old' = [o EXCEPT !.children = StillIn(o, SerializedSet(n))]
             /\ new' = [n EXCEPT !.children = StillIn(n, SerializedSet(o))]
  /\ UNCHANGED <<rrsets0, normVars, fetchVars, mainVars>>

---------------------------------------------------------------------------
(* Inputs *)

RECURSIVE SeqsUpTo(_, _)
SeqsUpTo(S, n) ==
  IF n = 0 THEN {<<>>}
  ELSE LET shorter == SeqsUpTo(S, n - 1)
       IN shorter \cup { Append(s, x) : s \in {t \in shorter : Len(t) = n - 1}, x \in S }

RRSet(name, ttl, values, tail) ==
  [tag |-> RRSetTag, name |-> name, type |-> "A", ttl |-> ttl, values |-> values, tail |-> tail]

Doc(tag, children) == [tag |-> tag, children |-> children]

\* one entry as the provider returns it, and each way of changing one field of
\* it: its values permuted, its wildcard written plainly, another TTL, another
\* value list, another name
BaseEntry == RRSet(NameEsc, "60", <<V10, V2>>, <<>>)

DiffEntries ==
  { BaseEntry,
    [BaseEntry EXCEPT !.values = <<V2, V10>>],
    [BaseEntry EXCEPT !.name = NameStar],
    [BaseEntry EXCEPT !.ttl = "900"],
    [BaseEntry EXCEPT !.values = <<V2>>],
    [BaseEntry EXCEPT !.name = NamePlain] }

NoDoc == Doc("none", <<>>)

IdleNorm == rrsets0 = NoDoc /\ rrsets = NoDoc /\ first = NoDoc /\ calls = 0
IdleDiff == old0 = NoDoc /\ new0 = NoDoc /\ old = NoDoc /\ new = NoDoc /\ result = Unset
IdleFetch ==
  /\ more_to_fetch = FALSE /\ cfg_chunks = <<>> /\ next_name = "<None>"
  /\ next_type = "<None>" /\ next_identifier = "<None>"
  /\ requests = <<>> /\ responses = <<>> /\ live_config = NoDoc
IdleValidate == errors = <<>> /\ shape = <<>>
\* zone_id before lookup_zone has returned (a text is a sequence of characters)
NoZoneId == <<"<None>">>
IdleZone == hosted_zones = <<>> /\ zone = <<>> /\ zone_id = NoZoneId
IdleCli == args = <<>> /\ ans = "" /\ submissions = <<>> /\ stdout = <<>>
IdleMain == IdleValidate /\ IdleZone /\ IdleCli

\* the documents handed to generate_changeset: a record-set container, or a
\* document under another root (a raw page) with at most one entry
DiffDocs(n) ==
  { Doc(RRSetsTag, c) : c \in SeqsUpTo(DiffEntries, n) }
    \cup { Doc(ResponseTag, c) : c \in SeqsUpTo(DiffEntries, Min(n, 1)) }

\* by number of entries: exactly k, and at most k
DocsOfLen == [k \in 0..MaxEntries |-> { d \in DiffDocs(k) : Len(d.children) = k }]
DocsUpTo == [k \in 0..MaxEntries |-> DiffDocs(k)]

Init ==
  /\ pc = "diff"
  /\ \E k \in 0..MaxEntries :
       /\ old0 \in DocsOfLen[k]
       /\ new0 \in DocsUpTo[MaxEntries - k]
  /\ old = old0
  /\ new = new0
  /\ result = Unset
  /\ IdleNorm
  /\ IdleFetch
  /\ IdleMain

Next == GenerateChangeset

Spec == Init /\ [][Next]_vars

---------------------------------------------------------------------------
(* normalize_rrs called again on its own result *)

NormalizeRrs ==
  /\ pc = "normalize"
  /\ calls < MaxCalls
  /\ rrsets' = normalize_rrs(rrsets)
  /\ first' = IF calls = 0 THEN normalize_rrs(rrsets) ELSE first
  /\ calls' = calls + 1
  /\ UNCHANGED <<pc, rrsets0, diffVars, fetchVars, mainVars>>

\* a child of the document that is not a record set: the loop skips it
OtherChild ==
  [tag |-> "Other", name |-> NameStar, type |-> "A", ttl |-> "60",
   values |-> <<V2, V1>>, tail |-> <<>>]

NormEntries ==
  { RRSet(n, "60", v, t) : n \in {NamePlain, NameStar, NameEsc, NameStarStar},
                           v \in {<<V2, V10>>, <<V10, V2>>, <<V2, V1, V10>>},
                           t \in {<<>>, <<"\n">>} }
    \cup {OtherChild}

InitNorm ==
  /\ pc = "normalize"
  /\ rrsets0 \in { Doc(RRSetsTag, c) : c \in SeqsUpTo(NormEntries, MaxDocEntries) }
  /\ rrsets = rrsets0
  /\ first = NoDoc
  /\ calls = 0
  /\ IdleDiff
  /\ IdleFetch
  /\ IdleMain

NextNorm == NormalizeRrs

SpecNorm == InitNorm /\ [][NextNorm]_vars

---------------------------------------------------------------------------
(* fetch_config and merge_config *)

PyNone == "<None>"       \* Python's None
Absent == "<absent>"     \* root.find(...) finds no such element
NoText == "<no text>"    \* the element is there and empty: its .text is None
NoParam == "<no param>"  \* the query string does not carry the parameter

\* root.find(tag).text of an element that is there
Text(e) == IF e = NoText THEN PyNone ELSE e

\* '%s' % v
Format(v) == IF v = PyNone THEN "None" ELSE v

\* the query string built from the loop's variables
GetStr(name, type, identifier) ==
  IF name # PyNone
  THEN [name |-> Format(name), type |-> Format(type),
        identifier |-> IF identifier # PyNone THEN Format(identifier) ELSE NoParam]
  ELSE [name |-> NoParam, type |-> NoParam, identifier |-> NoParam]

Truncated(page) == page.IsTruncated # Absent /\ Text(page.IsTruncated) = "true"

\* the pages a provider may answer with
PageEntries == { <<BaseEntry>>, <<[BaseEntry EXCEPT !.ttl = "900"], BaseEntry>> }

Pages ==
  { [entries |-> e, IsTruncated |-> "true", NextRecordName |-> n,
     NextRecordType |-> t, NextRecordIdentifier |-> i] :
       e \in PageEntries, n \in {Absent, NoText, "n1", "n2"},
       t \in {Absent, "NS"}, i \in {Absent, NoText, "50"} }
  \cup
  { [entries |-> e, IsTruncated |-> f, NextRecordName |-> c.n,
     NextRecordType |-> c.t, NextRecordIdentifier |-> c.i] :
       e \in PageEntries, f \in {Absent, "false"},
       c \in { [n |-> Absent, t |-> Absent, i |-> Absent],
               [n |-> "n1", t |-> "NS", i |-> "50"] } }

\* one turn of the while loop, the provider answering with a page of P
FetchPageFrom(P) ==
  /\ pc = "fetch"
  /\ more_to_fetch = TRUE
  /\ Len(requests) < MaxPages
  /\ requests' = Append(requests, GetStr(next_name, next_type, next_identifier))
  /\ UNCHANGED <<live_config, rrsets0, diffVars, normVars, mainVars>>
  /\ \/ \* conn.make_request or the parse raises
        /\ pc' = "failed"
        /\ more_to_fetch' = FALSE
        /\ UNCHANGED <<cfg_chunks, responses, next_name, next_type, next_identifier>>
     \/ \E page \in P :
          /\ responses' = Append(responses, page)
          /\ cfg_chunks' = Append(cfg_chunks, page)
          /\ IF ~Truncated(page)
             THEN /\ more_to_fetch' = FALSE
                  /\ pc' = "fetched"
                  /\ UNCHANGED <<next_name, next_type, next_identifier>>
             ELSE /\ more_to_fetch' = TRUE
                  /\ IF page.NextRecordName = Absent
                     THEN \* None.text: AttributeError
                          /\ pc' = "failed"
                          /\ UNCHANGED <<next_name, next_type, next_identifier>>
                     ELSE IF page.NextRecordType = Absent
                     THEN /\ pc' = "failed"
                          /\ next_name' = Text(page.NextRecordName)
                          /\ UNCHANGED <<next_type, next_identifier>>
                     ELSE /\ pc' = "fetch"
                          /\ next_name' = Text(page.NextRecordName)
                          /\ next_type' = Text(page.NextRecordType)
                          /\ next_identifier' =
                               IF page.NextRecordIdentifier = Absent
                               THEN PyNone
                               ELSE Text(page.NextRecordIdentifier)

FetchPage == FetchPageFrom(Pages)

\* every ResourceRecordSet of every chunk, in the order the loops reach them
\* (the descendant iterator too holds its next element before it yields one,
\* so moving an entry into the new root does not cut the traversal short)
MergedChildren_Dedup(chunks) ==
  LET F[k \in 0..Len(chunks)] ==
        IF k = 0 THEN <<>>
        ELSE F[k - 1] \o SelectSeq(chunks[k].entries,
                                   LAMBDA x : \A j \in 1..Len(F[k - 1]) : F[k - 1][j] # x)
  IN F[Len(chunks)]

MergedChildren(chunks) ==
  LET F[k \in 0..Len(chunks)] ==
        IF k = 0 THEN <<>> ELSE F[k - 1] \o chunks[k].entries
  IN F[Len(chunks)]

MergeConfig ==
  /\ pc = "fetched"
  /\ pc' = "merged"
  /\ live_config' = Doc(RRSetsTag, MergedChildren(cfg_chunks))
  \* root.append(rrset) moves the element out of its chunk
  /\ cfg_chunks' = [k \in 1..Len(cfg_chunks) |-> [cfg_chunks[k] EXCEPT !.entries = <<>>]]
  /\ UNCHANGED <<more_to_fetch, next_name, next_type, next_identifier, requests,
                 responses, rrsets0, diffVars, normVars, mainVars>>

InitFetch ==
  /\ pc = "fetch"
  /\ more_to_fetch = TRUE
  /\ cfg_chunks = <<>>
  /\ next_name = PyNone
  /\ next_type = PyNone
  /\ next_identifier = PyNone
  /\ requests = <<>>
  /\ responses = <<>>
  /\ live_config = NoDoc
  /\ IdleDiff
  /\ IdleNorm
  /\ IdleMain

NextFetch == FetchPage \/ MergeConfig

SpecFetch == InitFetch /\ [][NextFetch]_vars

---------------------------------------------------------------------------
(* validate_changeset *)

MAX_CHANGES == 100
MAX_RRS == 1000
MAX_CHARS == 10000

\* changeset.findall('.//Change')
ChangeElements(changeset) == changeset.changes

\* the concatenation of part[lo], ..., part[hi], by halves
RECURSIVE Flatten(_, _, _)
Flatten(part, lo, hi) ==
  IF lo > hi THEN <<>>
  ELSE IF lo = hi THEN part[lo]
  ELSE LET mid == (lo + hi) \div 2
       IN Flatten(part, lo, mid) \o Flatten(part, mid + 1, hi)

\* the sum of term[lo], ..., term[hi], by halves
RECURSIVE Sum(_, _, _)
Sum(term, lo, hi) ==
  IF lo > hi THEN 0
  ELSE IF lo = hi THEN term[lo]
  ELSE LET mid == (lo + hi) \div 2
       IN Sum(term, lo, mid) + Sum(term, mid + 1, hi)

\* changeset.findall('.//ResourceRecord'): one per value, in document order
ResourceRecordElements(changeset) ==
  LET c == ChangeElements(changeset)
  IN Flatten([k \in 1..Len(c) |-> c[k].rrs.values], 1, Len(c))

\* the sum of len(value.text) over changeset.findall('.//Value')
NumChars(changeset) ==
  LET v == ResourceRecordElements(changeset)
  IN Sum([k \in 1..Len(v) |-> Len(v[k])], 1, Len(v))

NoChangeError == [check |-> "at least one <Change>", n |-> 0, max |-> 0]
TooMany(check, n, max) == [check |-> check, n |-> n, max |-> max]

\* errors.append(...) when the condition holds
AppendIf(errs, cond, e) == IF cond THEN Append(errs, e) ELSE errs

validate_changeset_FirstOnly(changeset) ==
  LET num_changes == Len(ChangeElements(changeset))
      num_rrs == Len(ResourceRecordElements(changeset))
      num_chars == NumChars(changeset)
  IN IF num_changes = 0 THEN <<NoChangeError>>
     ELSE IF num_changes > MAX_CHANGES
     THEN <<TooMany("<Change> elements", num_changes, MAX_CHANGES)>>
     ELSE IF num_rrs > MAX_RRS
     THEN <<TooMany("ResourceRecord elements", num_rrs, MAX_RRS)>>
     ELSE IF num_chars > MAX_CHARS
     THEN <<TooMany("chars in <Value> text", num_chars, MAX_CHARS)>>
     ELSE <<>>

validate_changeset(changeset) ==
  LET num_changes == Len(ChangeElements(changeset))
      num_rrs == Len(ResourceRecordElements(changeset))
      num_chars == NumChars(changeset)
      e1 == AppendIf(<<>>, num_changes = 0, NoChangeError)
      e2 == AppendIf(e1, num_changes > MAX_CHANGES,
                     TooMany("<Change> elements", num_changes, MAX_CHANGES))
      e3 == AppendIf(e2, num_rrs > MAX_RRS,
                     TooMany("ResourceRecord elements", num_rrs, MAX_RRS))
  IN AppendIf(e3, num_chars > MAX_CHARS,
              TooMany("chars in <Value> text", num_chars, MAX_CHARS))

\* value.text is None for a <Value> element without text, and len(None)
\* raises TypeError
HasEmptyValue(changeset) ==
  \E k \in 1..Len(ChangeElements(changeset)) :
    \E j \in 1..Len(ChangeElements(changeset)[k].rrs.values) :
      ChangeElements(changeset)[k].rrs.values[j] = <<>>

ValidateChangeset ==
  /\ pc = "validate"
  /\ IF HasEmptyValue(result)
     THEN /\ pc' = "failed"
          /\ errors' = errors
     ELSE /\ pc' = "validated"
          /\ errors' = validate_changeset(result)
  /\ UNCHANGED <<shape, rrsets0, diffVars, normVars, fetchVars, zoneVars, cliVars>>

\* n copies of x
Repeat(x, n) == [i \in 1..n |-> x]

\* a batch of n1 changes whose entries hold k1 values of l1 characters each,
\* then n2 changes of k2 values of l2 characters
BatchOf(sh) ==
  [kind |-> "ChangeResourceRecordSetsRequest",
   comment |-> GeneratedComment,
   changes |->
     Repeat(Change("CREATE", [BaseEntry EXCEPT !.values = Repeat(Repeat("1", sh.l1), sh.k1)]),
            sh.n1)
     \o Repeat(Change("DELETE", [BaseEntry EXCEPT !.values = Repeat(Repeat("2", sh.l2), sh.k2)]),
               sh.n2)]

Shapes ==
  [n1 : {0, 1, 99, 100}, k1 : {1, 10}, l1 : {1, 10},
   n2 : {0, 1, 2}, k2 : {1, 10, 11}, l2 : {0, 1, 10, 11, 100, 101}]

InitValidate ==
  /\ pc = "validate"
  /\ shape \in Shapes
  /\ result = BatchOf(shape)
  /\ errors = <<>>
  /\ old0 = NoDoc /\ new0 = NoDoc /\ old = NoDoc /\ new = NoDoc
  /\ IdleNorm
  /\ IdleFetch
  /\ IdleZone
  /\ IdleCli

NextValidate == ValidateChangeset

SpecValidate == InitValidate /\ [][NextValidate]_vars

---------------------------------------------------------------------------
(* lookup_zone *)

MaxZones == 2

\* s.rstrip('.')
RECURSIVE RStripDots(_)
RStripDots(s) ==
  IF s # <<>> /\ s[Len(s)] = "." THEN RStripDots(SubSeq(s, 1, Len(s) - 1)) ELSE s

\* s.replace(sub, <<>>): every occurrence of sub, left to right, is dropped
RECURSIVE Remove(_, _)
Remove(s, sub) ==
  IF s = <<>> THEN <<>>
  ELSE IF StartsWith(s, sub) THEN Remove(Slice(s, Len(sub)), sub)
  ELSE <<Head(s)>> \o Remove(Tail(s), sub)

HostedZonePrefix == <<"/", "h", "o", "s", "t", "e", "d", "z", "o", "n", "e", "/">>

ZoneNotFoundError == <<"ZoneNotFoundError">>

\* resp['Name'].rstrip('.') == zone.rstrip('.')
NameMatches(resp, z) == RStripDots(resp.Name) = RStripDots(z)

\* the indexes of the listed zones that match, and the one the loop returns at
MatchingZones(zones, z) == { i \in 1..Len(zones) : NameMatches(zones[i], z) }

FirstMatch_NoStrip(zones, z) ==
  CHOOSE i \in 1..Len(zones) :
    /\ zones[i].Name = z
    /\ \A j \in 1..(i - 1) : zones[j].Name # z

FirstMatch(zones, z) ==
  CHOOSE i \in MatchingZones(zones, z) : \A j \in MatchingZones(zones, z) : i <= j

\* the value of the call: the identifier, or the exception it raises
lookup_zone_NoStrip(zones, z) ==
  IF \E i \in 1..Len(zones) : zones[i].Name = z
  THEN Remove(zones[FirstMatch_NoStrip(zones, z)].Id, HostedZonePrefix)
  ELSE ZoneNotFoundError

lookup_zone(zones, z) ==
  IF MatchingZones(zones, z) # {}
  THEN Remove(zones[FirstMatch(zones, z)].Id, HostedZonePrefix)
  ELSE ZoneNotFoundError

LookupZone ==
  /\ pc = "lookup"
  /\ \/ \* conn.get_all_hosted_zones() raises
        /\ pc' = "failed"
        /\ zone_id' = zone_id
     \/ /\ zone_id' = lookup_zone(hosted_zones, zone)
        /\ pc' = IF lookup_zone(hosted_zones, zone) = ZoneNotFoundError
                 THEN "failed" ELSE "resolved"
  /\ UNCHANGED <<hosted_zones, zone, rrsets0, diffVars, normVars, fetchVars,
                 validateVars, cliVars>>

\* zone names and identifiers of the listing
ZoneNames ==
  { <<"a">>, <<"a", ".">>, <<"a", ".", ".">>, <<"A">>, <<"b", ".">>, <<".", "a">> }

ZoneIds == { HostedZonePrefix \o <<"Z", "1">>, HostedZonePrefix \o <<"Z", "2">>, <<"Z", "3">> }

HostedZones == [Name : ZoneNames, Id : ZoneIds]

InitZone ==
  /\ pc = "lookup"
  /\ hosted_zones \in SeqsUpTo(HostedZones, MaxZones)
  /\ zone \in ZoneNames \cup { <<>> }
  /\ zone_id = NoZoneId
  /\ IdleDiff
  /\ IdleNorm
  /\ IdleFetch
  /\ IdleValidate
  /\ IdleCli

NextZone == LookupZone

SpecZone == InitZone /\ [][NextZone]_vars

---------------------------------------------------------------------------
(* main *)

\* Python values of the parsed arguments, and == and truth on them
PyStr(t) == [type |-> "str", val |-> t]
PyBool(b) == [type |-> "bool", val |-> b]
PyNoneValue == [type |-> "NoneType", val |-> "None"]

\* x == y: a str, a bool and None are never equal to one another
PyEq(x, y) == x.type = y.type /\ x.val = y.val

\* if x:
Truthy(x) ==
  CASE x.type = "NoneType" -> FALSE
    [] x.type = "bool" -> x.val
    [] x.type = "str" -> x.val # ""

\* parser.parse_args(): --push FILE (default None), --pull and --confirm
\* (store_true, default False)
ParsedArgs ==
  [push : {PyNoneValue, PyStr("-"), PyStr("new.xml")},
   pull : {PyBool(FALSE), PyBool(TRUE)},
   confirm : {PyBool(FALSE), PyBool(TRUE)}]

UsageMessage == [what |-> "You must specify either --push or --pull."]

\* from parse_args to the connection
Main ==
  /\ pc = "main"
  /\ IF PyEq(args.push, args.pull)
     THEN /\ stdout' = Append(stdout, UsageMessage)
          /\ pc' = "exit 1"
          /\ args' = args
     ELSE /\ args' = IF PyEq(args.push, PyStr("-"))
                     THEN [args EXCEPT !.confirm = PyBool(TRUE)]
                     ELSE args
          /\ pc' = "lookup"
          /\ stdout' = stdout
  /\ UNCHANGED <<ans, submissions, rrsets0, diffVars, normVars, fetchVars,
                 validateVars, zoneVars>>

\* fetch_config(zone_id, conn) up to its loop
FetchConfig ==
  /\ pc = "resolved"
  /\ pc' = "fetch"
  /\ more_to_fetch' = TRUE
  /\ cfg_chunks' = <<>>
  /\ next_name' = PyNone
  /\ next_type' = PyNone
  /\ next_identifier' = PyNone
  /\ UNCHANGED <<requests, responses, live_config, rrsets0, diffVars, normVars, mainVars>>

\* XSLT_STRIPSPACE: the whitespace between elements goes
normalize_xml(doc) ==
  [doc EXCEPT !.children = [i \in 1..Len(doc.children) |-> [doc.children[i] EXCEPT !.tail = <<>>]]]

\* the desired-state documents of the file or of standard input
ManyEntries == MAX_CHANGES + 1
MainDocs ==
  { Doc(RRSetsTag, <<BaseEntry>>),
    Doc(RRSetsTag, <<[BaseEntry EXCEPT !.ttl = "900"], [BaseEntry EXCEPT !.name = NamePlain]>>),
    Doc(RRSetsTag, Repeat([BaseEntry EXCEPT !.name = NamePlain], ManyEntries)),
    Doc(RRSetsTag, <<[BaseEntry EXCEPT !.values = << <<>> >>]>>) }

\* the pages the provider answers with in a run of main
MainPages ==
  { [entries |-> <<BaseEntry>>, IsTruncated |-> "false", NextRecordName |-> Absent,
     NextRecordType |-> Absent, NextRecordIdentifier |-> Absent],
    [entries |-> <<[BaseEntry EXCEPT !.ttl = "900"]>>, IsTruncated |-> "true",
     NextRecordName |-> "n1", NextRecordType |-> "NS", NextRecordIdentifier |-> Absent] }

\* if args.pull: print; if args.push: parse, normalize both, call the diff
PullPush ==
  /\ pc = "merged"
  /\ stdout' = IF Truthy(args.pull)
               THEN Append(stdout, [what |-> "live_config", doc |-> live_config])
               ELSE stdout
  /\ IF Truthy(args.push)
     THEN \/ \* lxml.etree.parse raises
             /\ pc' = "failed"
             /\ UNCHANGED diffVars
          \/ \E doc \in MainDocs :
               /\ pc' = "diff"
               /\ old0' = normalize_xml(live_config)
               /\ old' = normalize_xml(live_config)
               /\ new0' = normalize_xml(doc)
               /\ new' = normalize_xml(doc)
               /\ result' = Unset
     ELSE /\ pc' = "exit 0"
          /\ UNCHANGED diffVars
  /\ UNCHANGED <<args, ans, submissions, rrsets0, normVars, fetchVars, validateVars, zoneVars>>

\* lxml.etree.tostring(changeset, pretty_print=True)
ChangesetStr(changeset) ==
  <<"<ChangeResourceRecordSetsRequest>", "<ChangeBatch>", "<Comment>", changeset.comment,
    "</Comment>", "<Changes>">>
    \o Flatten([k \in 1..Len(changeset.changes) |->
                  <<"<Change>", "<Action>", changeset.changes[k].action, "</Action>">>
                    \o tostring(changeset.changes[k].rrs) \o <<"</Change>">>],
               1, Len(changeset.changes))
    \o <<"</Changes>", "</ChangeBatch>", "</ChangeResourceRecordSetsRequest>">>

\* from the return of generate_changeset to the call of validate_changeset
AfterDiff ==
  /\ pc = "diffed"
  /\ IF result = InvalidArgumentException
     THEN /\ pc' = "failed"
          /\ stdout' = stdout
     ELSE IF result = None
     THEN /\ pc' = "exit 0"
          /\ stdout' = Append(stdout, [what |-> "No changes found; exiting"])
     ELSE /\ pc' = "validate"
          /\ stdout' = Append(stdout, [what |-> "==CHANGESET==", str |-> ChangesetStr(result)])
  /\ UNCHANGED <<args, ans, submissions, rrsets0, diffVars, normVars, fetchVars,
                 validateVars, zoneVars>>

\* what the operator types at "Push y/N? "
Answers == {"y", "Y", "n", ""}

Push_AnyAnswer ==
  /\ pc = "validated"
  /\ IF Len(errors) > 0
     THEN /\ pc' = "exit 1"
          /\ stdout' = Append(stdout, [what |-> "changeset errors", errs |-> errors])
          /\ UNCHANGED <<ans, submissions>>
     ELSE \E typed \in Answers :
            /\ ans' = IF Truthy(args.confirm) THEN ans ELSE typed
            /\ IF ~Truthy(args.confirm) /\ typed \notin Answers
               THEN /\ pc' = "exit 0"
                    /\ stdout' = Append(stdout, [what |-> "Confirmation failed; exiting"])
                    /\ UNCHANGED submissions
               ELSE \* conn.change_rrsets(zone_id, changesetstr) returns or raises
                    /\ submissions' = Append(submissions,
                                             [zone_id |-> zone_id, changeset |-> ChangesetStr(result)])
                    /\ pc' \in {"done", "failed"}
                    /\ stdout' = stdout
  /\ UNCHANGED <<args, rrsets0, diffVars, normVars, fetchVars, validateVars, zoneVars>>

\* from the return of validate_changeset to the end
Push ==
  /\ pc = "validated"
  /\ IF Len(errors) > 0
     THEN /\ pc' = "exit 1"
          /\ stdout' = Append(stdout, [what |-> "changeset errors", errs |-> errors])
          /\ UNCHANGED <<ans, submissions>>
     ELSE \E typed \in Answers :
            /\ ans' = IF Truthy(args.confirm) THEN ans ELSE typed
            /\ IF ~Truthy(args.confirm) /\ typed \notin {"y", "Y"}
               THEN /\ pc' = "exit 0"
                    /\ stdout' = Append(stdout, [what |-> "Confirmation failed; exiting"])
                    /\ UNCHANGED submissions
               ELSE \* conn.change_rrsets(zone_id, changesetstr) returns or raises
                    /\ submissions' = Append(submissions,
                                             [zone_id |-> zone_id, changeset |-> ChangesetStr(result)])
                    /\ pc' \in {"done", "failed"}
                    /\ stdout' = stdout
  /\ UNCHANGED <<args, rrsets0, diffVars, normVars, fetchVars, validateVars, zoneVars>>

InitMain ==
  /\ pc = "main"
  /\ args \in ParsedArgs
  /\ hosted_zones \in SeqsUpTo({[Name |-> <<"a", ".">>, Id |-> HostedZonePrefix \o <<"Z", "1">>]}, 1)
  /\ zone = <<"a">>
  /\ zone_id = NoZoneId
  /\ ans = ""
  /\ submissions = <<>>
  /\ stdout = <<>>
  /\ IdleValidate
  /\ IdleDiff
  /\ IdleNorm
  /\ IdleFetch

NextMain ==
  \/ Main
  \/ LookupZone
  \/ FetchConfig
  \/ FetchPageFrom(MainPages)
  \/ MergeConfig
  \/ PullPush
  \/ GenerateChangeset
  \/ AfterDiff
  \/ ValidateChangeset
  \/ Push

SpecMain == InitMain /\ [][NextMain]_vars

---------------------------------------------------------------------------
(* Properties of generate_changeset (specification Spec) *)

Diffed == pc = "diffed"
IsBatch == result.kind = "ChangeResourceRecordSetsRequest"
BothContainers == old0.tag = RRSetsTag /\ new0.tag = RRSetsTag

\* the entries of the two inputs after normalization, and their serialized forms
OldEntries == normalize_rrs(old0).children
NewEntries == normalize_rrs(new0).children
OldForms == { Serialized(OldEntries[i]) : i \in 1..Len(OldEntries) }
NewForms == { Serialized(NewEntries[i]) : i \in 1..Len(NewEntries) }

Removed == SelectSeq(OldEntries, LAMBDA x : Serialized(x) \notin NewForms)
Added == SelectSeq(NewEntries, LAMBDA x : Serialized(x) \notin OldForms)

DeletesOf(changes) == SelectSeq(changes, LAMBDA c : c.action = "DELETE")
CreatesOf(changes) == SelectSeq(changes, LAMBDA c : c.action = "CREATE")

\* C1: for two record-set containers whose sets of serialized entries differ,
\* the batch's actions are one DELETE per entry of old whose serialized form is
\* not among new's, in old's order, then one CREATE per entry of new whose
\* serialized form is not among old's, in new's order, and nothing else; so
\* old = {E1}, new = {E1, E2} gives exactly CREATE(E2), and old = {E1, E2},
\* new = {E1} gives exactly DELETE(E2).
C1_DeletesThenCreates ==
  (Diffed /\ BothContainers /\ OldForms # NewForms) =>
    /\ IsBatch
    /\ result.changes =
         [i \in 1..Len(Removed) |-> [action |-> "DELETE", rrs |-> Removed[i]]]
           \o [i \in 1..Len(Added) |-> [action |-> "CREATE", rrs |-> Added[i]]]
    /\ (/\ Len(OldEntries) = 1 /\ Len(NewEntries) = 2
        /\ NewEntries[1] = OldEntries[1])
         => result.changes = <<[action |-> "CREATE", rrs |-> NewEntries[2]]>>
    /\ (/\ Len(OldEntries) = 2 /\ Len(NewEntries) = 1
        /\ NewEntries[1] = OldEntries[1])
         => result.changes = <<[action |-> "DELETE", rrs |-> OldEntries[2]]>>

\* two entries removed and two added: the order of each side is visible
C1_Witness ==
  /\ Diffed /\ BothContainers /\ IsBatch
  /\ Len(Removed) = 2 /\ Removed[1] # Removed[2]
  /\ Len(Added) = 2 /\ Added[1] # Added[2]
  /\ Len(result.changes) = 4

\* C2: the call returns None exactly when the two sets of serialized entries
\* (after normalization) are equal; diff(X, X) is None; when None is returned
\* no entry has been moved into a change; a returned batch has an action.
C2_NoneIffSameSets ==
  (Diffed /\ result # InvalidArgumentException) =>
    /\ (result = None) <=> (OldForms = NewForms)
    /\ (old0.children = new0.children) => result = None
    /\ (result = None) => (old.children = OldEntries /\ new.children = NewEntries)
    /\ IsBatch => Len(result.changes) >= 1

\* None for two documents that are not the same list of entries
C2_Witness ==
  /\ Diffed /\ BothContainers /\ result = None
  /\ Len(old0.children) = 2 /\ Len(new0.children) = 2
  /\ Serialized(OldEntries[1]) # Serialized(OldEntries[2])
  /\ Serialized(OldEntries[1]) = Serialized(NewEntries[2])
  /\ Serialized(OldEntries[2]) = Serialized(NewEntries[1])

\* old and new hold the same entries but for the one at position i, which keeps
\* its name and type and changes its TTL or its value list; the other entries
\* are other records
ReplacedAt(i) ==
  /\ BothContainers
  /\ Len(old0.children) = Len(new0.children)
  /\ i \in 1..Len(old0.children)
  /\ OldEntries[i].name = NewEntries[i].name
  /\ OldEntries[i].type = NewEntries[i].type
  /\ \/ OldEntries[i].ttl # NewEntries[i].ttl
     \/ OldEntries[i].values # NewEntries[i].values
  /\ \A j \in 1..Len(old0.children) :
       j # i => /\ old0.children[j] = new0.children[j]
                /\ Serialized(OldEntries[j]) # Serialized(OldEntries[i])
                /\ Serialized(OldEntries[j]) # Serialized(NewEntries[i])

\* C3: an entry replaced by one of the same name and type with another TTL or
\* value list gives exactly DELETE(old entry) then CREATE(new entry), each the
\* whole entry; and in every batch every DELETE precedes every CREATE.
C3_ReplaceIsDeleteThenCreate ==
  Diffed =>
    /\ \A i \in 1..MaxEntries :
         ReplacedAt(i) =>
           /\ IsBatch
           /\ result.changes = << [action |-> "DELETE", rrs |-> OldEntries[i]],
                                  [action |-> "CREATE", rrs |-> NewEntries[i]] >>
    /\ IsBatch =>
         \A i, j \in 1..Len(result.changes) :
           (result.changes[i].action = "DELETE" /\ result.changes[j].action = "CREATE")
             => i < j

\* a replaced entry beside an unchanged one
C3_Witness ==
  /\ Diffed /\ IsBatch
  /\ Len(old0.children) = 2
  /\ ReplacedAt(2)
  /\ OldEntries[2].ttl # NewEntries[2].ttl

\* the batch applied to old's set of serialized entries
FormsOf(changes) == { Serialized(changes[i].rrs) : i \in 1..Len(changes) }
Applied == (OldForms \ FormsOf(DeletesOf(result.changes))) \cup FormsOf(CreatesOf(result.changes))
CarriedBy(changes, f) == { i \in 1..Len(changes) : Serialized(changes[i].rrs) = f }

\* C4: the batch is the minimal converging change set: each serialized entry
\* of old not in new is carried by exactly one DELETE, each of new not in old
\* by exactly one CREATE, there is no other action, and the batch applied to
\* old's set gives new's set.
C4_MinimalConvergingBatch ==
  (Diffed /\ IsBatch) =>
    /\ \A f \in OldForms \ NewForms :
         Cardinality(CarriedBy(DeletesOf(result.changes), f)) = 1
    /\ \A f \in NewForms \ OldForms :
         Cardinality(CarriedBy(CreatesOf(result.changes), f)) = 1
    /\ Len(result.changes) = Cardinality(OldForms \ NewForms) + Cardinality(NewForms \ OldForms)
    /\ Applied = NewForms

\* C5: when either input is not a record-set container the call raises
\* InvalidArgumentException and has touched neither input.
C5_MismatchedShapeRaises ==
  (Diffed /\ (old0.tag # RRSetsTag \/ new0.tag # RRSetsTag)) =>
    /\ result = InvalidArgumentException
    /\ old = old0
    /\ new = new0

\* b's values are a's in another order
IsPermutation(a, b) ==
  /\ Len(a) = Len(b)
  /\ \A v \in {a[i] : i \in 1..Len(a)} \cup {b[i] : i \in 1..Len(b)} :
       Cardinality({i \in 1..Len(a) : a[i] = v}) = Cardinality({i \in 1..Len(b) : b[i] = v})

\* new is old with the values permuted inside entries and nothing else changed
PermutedOnly ==
  /\ BothContainers
  /\ Len(old0.children) = Len(new0.children)
  /\ \A i \in 1..Len(old0.children) :
       /\ IsPermutation(old0.children[i].values, new0.children[i].values)
       /\ new0.children[i] = [old0.children[i] EXCEPT !.values = new0.children[i].values]

\* C6: two documents that differ only by the order of values inside entries
\* normalize to the same serialized entries, with the values in ascending
\* order of their text, and their diff is None.
C6_ValueOrderIsIrrelevant ==
  (Diffed /\ PermutedOnly) =>
    /\ \A i \in 1..Len(OldEntries) :
         /\ Serialized(OldEntries[i]) = Serialized(NewEntries[i])
         /\ \A k \in 1..(Len(OldEntries[i].values) - 1) :
              StrLeq(OldEntries[i].values[k], OldEntries[i].values[k + 1])
    /\ result = None

C6_Witness ==
  /\ Diffed /\ PermutedOnly /\ result = None
  /\ \E i \in 1..Len(old0.children) : old0.children[i].values # new0.children[i].values

\* the same name, written with the plain or with the escaped wildcard label
SameUpToWildcard(a, b) ==
  \/ a = b
  \/ /\ StartsWith(a, Wildcard) /\ StartsWith(b, Escaped)
     /\ Slice(a, Len(Wildcard)) = Slice(b, Len(Escaped))
  \/ /\ StartsWith(b, Wildcard) /\ StartsWith(a, Escaped)
     /\ Slice(b, Len(Wildcard)) = Slice(a, Len(Escaped))

\* new is old but for the encoding of the wildcard in names
WildcardOnly ==
  /\ BothContainers
  /\ Len(old0.children) = Len(new0.children)
  /\ \A i \in 1..Len(old0.children) :
       /\ SameUpToWildcard(old0.children[i].name, new0.children[i].name)
       /\ new0.children[i] = [old0.children[i] EXCEPT !.name = new0.children[i].name]

\* C7: an entry named '*.' + rest and the same entry named '\052.' + rest
\* normalize to the same serialized entry, whichever document holds which,
\* and the diff of two documents that differ only so is None.
C7_WildcardEncodingIsIrrelevant ==
  (Diffed /\ WildcardOnly) =>
    /\ \A i \in 1..Len(OldEntries) : Serialized(OldEntries[i]) = Serialized(NewEntries[i])
    /\ result = None

\* both directions in one run: plain in new at one entry, plain in old at another
C7_Witness ==
  /\ Diffed /\ WildcardOnly /\ result = None
  /\ \E i, j \in 1..Len(old0.children) :
       /\ StartsWith(old0.children[i].name, Escaped) /\ StartsWith(new0.children[i].name, Wildcard)
       /\ StartsWith(old0.children[j].name, Wildcard) /\ StartsWith(new0.children[j].name, Escaped)

---------------------------------------------------------------------------
(* Properties of normalize_rrs (specification SpecNorm) *)

\* lxml.etree.tostring of the whole document: its children with their tails
DocText(doc) ==
  LET F[k \in 0..Len(doc.children)] ==
        IF k = 0 THEN <<"<", doc.tag, ">">> ELSE F[k - 1] \o tostring(doc.children[k])
  IN F[Len(doc.children)] \o <<"</", doc.tag, ">">>

\* C8: normalize_rrs is idempotent: a second (and any later) call leaves the
\* document serialized as the first call left it; a sorted value list keeps
\* its order, an escaped name is not rewritten, and '*.*.a' is rewritten once,
\* to '\052.*.a'.
C8_NormalizeIsIdempotent ==
  /\ calls >= 2 =>
       /\ DocText(rrsets) = DocText(first)
       /\ \A i \in 1..Len(rrsets.children) :
            /\ rrsets.children[i].name = first.children[i].name
            /\ rrsets.children[i].values = first.children[i].values
  /\ calls >= 1 =>
       \A i \in 1..Len(rrsets.children) :
         (rrsets0.children[i].tag = RRSetTag /\ rrsets0.children[i].name = NameStarStar)
           => rrsets.children[i].name = Escaped \o <<"*", ".", "a">>

\* a second call on a document whose first call rewrote a two-wildcard name
\* and reordered three values
C8_Witness ==
  /\ pc = "normalize" /\ calls = 2
  /\ \E i \in 1..Len(rrsets0.children) :
       /\ rrsets0.children[i].tag = RRSetTag
       /\ rrsets0.children[i].name = NameStarStar
       /\ rrsets0.children[i].values = <<V2, V1, V10>>
       /\ first.children[i].values = <<V1, V10, V2>>

---------------------------------------------------------------------------
(* Properties of fetch_config and merge_config (specification SpecFetch) *)

\* the response carries the element with a text
Supplied(e) == e # Absent /\ e # NoText

\* C9: the first request carries no cursor; every later request follows a
\* flagged response and carries that response's name and type, both present,
\* and its identifier exactly when that response supplied one.
C9_CursorOfPrecedingResponse ==
  \A i \in 1..Len(requests) :
    IF i = 1
    THEN requests[i] = [name |-> NoParam, type |-> NoParam, identifier |-> NoParam]
    ELSE LET prev == responses[i - 1]
         IN /\ Truncated(prev)
            /\ requests[i].name # NoParam
            /\ requests[i].type # NoParam
            /\ Supplied(prev.NextRecordName) /\ requests[i].name = prev.NextRecordName
            /\ Supplied(prev.NextRecordType) /\ requests[i].type = prev.NextRecordType
            /\ (requests[i].identifier # NoParam) <=> Supplied(prev.NextRecordIdentifier)
            /\ Supplied(prev.NextRecordIdentifier)
                 => requests[i].identifier = prev.NextRecordIdentifier

RECURSIVE AllEntries(_)
AllEntries(pages) ==
  IF pages = <<>> THEN <<>> ELSE Head(pages).entries \o AllEntries(Tail(pages))

RECURSIVE EntryCount(_)
EntryCount(pages) ==
  IF pages = <<>> THEN 0 ELSE Len(Head(pages).entries) + EntryCount(Tail(pages))

\* C10: the loop goes on only after a flagged response and stops at the first
\* unflagged one, returning the pages received, one per request, in order;
\* merge_config gives one record set holding every entry of every page, in
\* page order and in each page's own order, repeated entries included.
C10_PagesInOrderThenMerged ==
  /\ pc \in {"fetch", "failed"} =>
       \A i \in 1..Len(responses) : Truncated(responses[i])
  /\ pc \in {"fetched", "merged"} =>
       /\ Len(responses) >= 1
       /\ Len(requests) = Len(responses)
       /\ ~Truncated(responses[Len(responses)])
       /\ \A i \in 1..(Len(responses) - 1) : Truncated(responses[i])
  /\ pc = "fetched" => cfg_chunks = responses
  /\ pc = "merged" =>
       /\ live_config.tag = RRSetsTag
       /\ live_config.children = AllEntries(responses)
       /\ Len(live_config.children) = EntryCount(responses)

\* three pages merged, one of two entries, an entry of one page repeated in another
C10_Witness ==
  /\ pc = "merged"
  /\ Len(responses) = 3
  /\ Len(responses[2].entries) = 2
  /\ responses[1].entries[1] = responses[2].entries[2]
  /\ Len(live_config.children) = 4

---------------------------------------------------------------------------
(* Properties of validate_changeset (specification SpecValidate) *)

\* the counts of the batch, from the way it was built
ShapeChanges == shape.n1 + shape.n2
ShapeValues == shape.n1 * shape.k1 + shape.n2 * shape.k2
ShapeChars == shape.n1 * shape.k1 * shape.l1 + shape.n2 * shape.k2 * shape.l2

Reports(check) == \E i \in 1..Len(errors) : errors[i].check = check

\* C11: the four checks are independent and all applicable violations are
\* returned: no action iff the batch has 0 actions; too many actions iff more
\* than 100; too many values iff more than 1000 values in all; too many
\* characters iff the value texts sum to more than 10000 characters; the list
\* is empty iff none applies, each violation is reported once, and the batch
\* is left as it was.  (A list is returned for every batch whose values all
\* have text.)
C11_AllViolationsReported ==
  /\ pc = "failed" => (shape.n2 > 0 /\ shape.l2 = 0 /\ errors = <<>>)
  /\ pc = "validated" =>
      /\ Reports("at least one <Change>") <=> (ShapeChanges = 0)
      /\ Reports("<Change> elements") <=> (ShapeChanges > 100)
      /\ Reports("ResourceRecord elements") <=> (ShapeValues > 1000)
      /\ Reports("chars in <Value> text") <=> (ShapeChars > 10000)
      /\ (errors = <<>>) <=>
           (ShapeChanges # 0 /\ ShapeChanges <= 100 /\ ShapeValues <= 1000 /\ ShapeChars <= 10000)
      /\ \A i, j \in 1..Len(errors) : errors[i].check = errors[j].check => i = j
      /\ \A i \in 1..Len(errors) :
           errors[i].check # "at least one <Change>" =>
             errors[i].n = (CASE errors[i].check = "<Change> elements" -> ShapeChanges
                              [] errors[i].check = "ResourceRecord elements" -> ShapeValues
                              [] OTHER -> ShapeChars)
      /\ result = BatchOf(shape)

\* a batch over all three limits at once
C11_Witness ==
  /\ pc = "validated"
  /\ ShapeChanges = 101 /\ ShapeValues = 1001 /\ ShapeChars > 10000
  /\ Len(errors) = 3

\* a batch exactly at the three limits passes
C11_WitnessAtLimits ==
  /\ pc = "validated"
  /\ ShapeChanges = 100 /\ ShapeValues = 1000 /\ ShapeChars = 10000
  /\ errors = <<>>

---------------------------------------------------------------------------
(* Properties of lookup_zone (specification SpecZone) *)

\* the name without the dots at its end
RECURSIVE TrailingDots(_)
TrailingDots(s) == IF s # <<>> /\ s[Len(s)] = "." THEN 1 + TrailingDots(SubSeq(s, 1, Len(s) - 1)) ELSE 0
Undotted(s) == SubSeq(s, 1, Len(s) - TrailingDots(s))

\* the listed zone is the requested one, trailing dots apart
SameZone(i) == Undotted(hosted_zones[i].Name) = Undotted(zone)

\* the identifier of a listed zone without its '/hostedzone/' prefix
BareId(i) ==
  LET id == hosted_zones[i].Id
  IN IF Len(id) >= Len(HostedZonePrefix) /\ SubSeq(id, 1, Len(HostedZonePrefix)) = HostedZonePrefix
     THEN SubSeq(id, Len(HostedZonePrefix) + 1, Len(id))
     ELSE id

\* C13: lookup_zone returns the identifier, without its '/hostedzone/' prefix,
\* of the first listed zone whose name equals the requested name once the
\* trailing dots of both are ignored (case-sensitive otherwise); it raises
\* ZoneNotFoundError exactly when no listed zone matches; it never returns
\* the identifier of a zone whose name does not match.
C13_FirstMatchingZone ==
  /\ pc = "resolved" =>
       \E i \in 1..Len(hosted_zones) :
         /\ SameZone(i)
         /\ \A j \in 1..(i - 1) : ~SameZone(j)
         /\ zone_id = BareId(i)
  /\ (pc = "failed" /\ zone_id # NoZoneId) =>
       /\ zone_id = ZoneNotFoundError
       /\ \A i \in 1..Len(hosted_zones) : ~SameZone(i)
  /\ (pc \in {"resolved", "failed"} /\ \A i \in 1..Len(hosted_zones) : ~SameZone(i)) =>
       pc = "failed"

\* two listed zones match, with dots the request does not have, and the first
\* one's identifier is returned; a zone differing by case is passed over
C13_Witness ==
  /\ pc = "resolved"
  /\ Len(hosted_zones) = 2
  /\ hosted_zones[1].Name # zone /\ hosted_zones[2].Name # zone
  /\ SameZone(1) /\ SameZone(2)
  /\ hosted_zones[1].Id # hosted_zones[2].Id
  /\ zone_id = <<"Z", "1">>

\* no match among two listed zones, one of them differing by case only
C13_WitnessNotFound ==
  /\ pc = "failed" /\ zone_id = ZoneNotFoundError
  /\ Len(hosted_zones) = 2
  /\ hosted_zones[1].Name = <<"A">> /\ zone = <<"a">>

---------------------------------------------------------------------------
(* Properties of main (specification SpecMain) *)

PushSelected == args.push.type # "NoneType"
PullSelected == args.pull.val

\* C14: pull and push are mutually exclusive: with neither or both selected
\* the run ends in the usage error before any zone lookup, fetch or
\* submission; with exactly one selected it goes on.
C14_NeitherOrBothIsUsageError ==
  /\ (PushSelected = PullSelected) =>
       /\ pc \in {"main", "exit 1"}
       /\ pc = "exit 1" => stdout = <<UsageMessage>>
       /\ zone_id = NoZoneId
       /\ requests = <<>>
       /\ submissions = <<>>
  /\ (PushSelected # PullSelected) =>
       \A i \in 1..Len(stdout) : stdout[i] # UsageMessage

Resolved == zone_id # NoZoneId /\ zone_id # ZoneNotFoundError

FetchComplete ==
  /\ Len(responses) >= 1
  /\ Len(requests) = Len(responses)
  /\ ~Truncated(responses[Len(responses)])
  /\ \A i \in 1..(Len(responses) - 1) : Truncated(responses[i])

Confirmed == ans \in {"y", "Y"} \/ args.confirm.val

\* C12: the batch is submitted at most once, and only after the zone was
\* resolved, then the fetch completed with an unflagged last page, then the
\* diff returned a batch, then validation returned no violation, then the
\* operator confirmed or confirmation was skipped by the flag or by standard
\* input; when the zone is not found, a page request fails, the diff is None
\* or validation reports a violation there is no submission; only a
\* completely fetched record set is diffed.
C12_SubmittedOnceAfterEveryStep ==
  /\ Len(submissions) <= 1
  /\ pc \in {"fetch", "fetched", "merged", "diff", "diffed", "validate", "validated", "done"}
       => Resolved
  /\ pc \in {"merged", "diff", "diffed", "validate", "validated", "done"} => FetchComplete
  /\ pc \in {"validate", "validated", "done"} => IsBatch
  /\ pc = "done" => (errors = <<>> /\ Confirmed /\ Len(submissions) = 1)
  /\ (pc # "main" /\ PyEq(args.push, PyStr("-"))) => args.confirm.val
  /\ submissions # <<>> =>
       /\ pc \in {"done", "failed"}
       /\ Resolved
       /\ FetchComplete
       /\ IsBatch
       /\ ~HasEmptyValue(result) /\ validate_changeset(result) = <<>> /\ errors = <<>>
       /\ Confirmed
       /\ submissions[1] = [zone_id |-> zone_id, changeset |-> ChangesetStr(result)]
  /\ zone_id = ZoneNotFoundError => submissions = <<>>
  /\ (pc = "failed" /\ Len(requests) > Len(responses)) =>
       (submissions = <<>> /\ old0 = NoDoc)
  /\ result = None => submissions = <<>>
  /\ errors # <<>> => submissions = <<>>
  /\ old0 # NoDoc => (FetchComplete /\ old0.children = AllEntries(responses))

\* a submission after a fetch of two pages and a typed confirmation
C12_Witness ==
  /\ pc = "done"
  /\ Len(submissions) = 1
  /\ Len(responses) = 2
  /\ ~args.confirm.val /\ ans = "Y"

\* a run that ends on a validation error, without a submission
C12_WitnessRejected ==
  /\ pc = "exit 1"
  /\ errors # <<>>
  /\ submissions = <<>>

====
